---- MODULE Spec2Model ----
(***************************************************************************)
(* Opening-book builder of Weak-Bot: build_book_from_pgn, Book.normalize   *)
(* and Book.save_polyglot of filter_and_build.py (mode "balanced") and of  *)
(* weakest-book.py (mode "winonly").                                       *)
(*                                                                         *)
(* The PGN parser, the board and the Zobrist hasher are python-chess; they *)
(* are represented by a small position graph (Graph): a board is named by  *)
(* its hash, and the decoder yields, one at a time, moves of that graph.   *)
(* 64-bit hashes are represented by small naturals; only their order and   *)
(* their 16-digit hexadecimal form matter to the code.                     *)
(***************************************************************************)
EXTENDS Integers, Sequences, FiniteSets, TLC

VARIABLES
    mode,        \* which script runs: "balanced" or "winonly"
    cfg,         \* the bounded family of inputs of this run (never changes)
    pc,          \* position in build_book_from_pgn
    read,        \* games returned so far by chess.pgn.read_game
    result,      \* game.headers["Result"] of the current game
    botSide,     \* the colour the fetched bot plays in the current game (never read by the code)
    board,       \* hash of the current board
    ply,         \* loop variable ply (index of the move last yielded), -1 before the first
    move,        \* loop variable move
    positions,   \* book.positions, an insertion-ordered dict
    shard,       \* the sub-corpus the current game belongs to: "A", "B" or "none"
    bookA,       \* book aggregated from sub-corpus A alone
    bookB,       \* book aggregated from sub-corpus B alone
    recorded,    \* ply indices of the current game for which a MoveStat was located and scored
    ingested,    \* book.positions as it was when normalize() was called
    normalized,  \* book.positions as it was when normalize() returned
    delta,       \* the jitter drawn for every MoveStat, in iteration order
    entries      \* the 16-byte entries written to the .bin file, in file order

vars == <<mode, cfg, pc, read, result, botSide, board, ply, move, positions,
          shard, bookA, bookB, recorded, ingested, normalized, delta, entries>>

(***************************************************************************)
(* Program constants                                                       *)
(***************************************************************************)
MAX_PLY == 60
MAX_BOOK_WEIGHT == 2520
WHITE == TRUE
BLACK == FALSE
Modes == {"balanced", "winonly"}
Results == {"1-0", "0-1", "1/2-1/2", "*"}
DecayStep == 5
WinFactor == 6
LossFactor == 1
DrawFactor == 2
WinRandLo == 4
WinRandHi == 6
JitterLo == 0
JitterHi == 3

(***************************************************************************)
(* Bounds of the model                                                     *)
(***************************************************************************)
MaxGames == 2       \* games in the PGN stream
MaxStats == 2       \* MoveStats in the book of a short corpus, and moves of one of its games
MaxExtra == 1       \* moves a long game has beyond MAX_PLY

Max(a, b) == IF a >= b THEN a ELSE b
Min(a, b) == IF a <= b THEN a ELSE b

RECURSIVE Pow(_, _)
Pow(b, n) == IF n = 0 THEN 1 ELSE b * Pow(b, n - 1)

(***************************************************************************)
(* chess.Move: from_square, to_square in 0..63 (file + 8 * rank),          *)
(* promotion a piece type (KNIGHT = 2 .. QUEEN = 5) or None (0).           *)
(***************************************************************************)
Mv(f, t, p) == [from_square |-> f, to_square |-> t, promotion |-> p]
None == Mv(-1, -1, 0)
g1f3 == Mv(6, 21, 0)
g8f6 == Mv(62, 45, 0)
f3g1 == Mv(21, 6, 0)
f6g8 == Mv(45, 62, 0)
e2e4 == Mv(12, 28, 0)
e7e5 == Mv(52, 36, 0)
a7a8q == Mv(48, 56, 5)

\* Move.uci(): file letter and rank digit of both squares, then the promotion letter
PieceSymbol(p) == <<"p", "n", "b", "r", "q", "k">>[p]
uci(m) ==
    <<m.from_square % 8, m.from_square \div 8, m.to_square % 8, m.to_square \div 8>>
    \o (IF m.promotion # 0 THEN <<PieceSymbol(m.promotion)>> ELSE <<>>)

(***************************************************************************)
(* The position graph standing for python-chess: the start position, the   *)
(* knight shuffle 1.Nf3 Nf6 2.Ng1 Ng8 (which returns to the start          *)
(* position) and the line 1.e4 e5.                                         *)
(***************************************************************************)
StartHash == 5
HashNf3 == 2
HashNf3Nf6 == 7
HashNg1 == 3
HashE4 == 1
HashE4E5 == 9
Graph ==
    {<<StartHash, g1f3, HashNf3>>, <<HashNf3, g8f6, HashNf3Nf6>>,
     <<HashNf3Nf6, f3g1, HashNg1>>, <<HashNg1, f6g8, StartHash>>,
     <<StartHash, e2e4, HashE4>>, <<HashE4, e7e5, HashE4E5>>}
Shuffle == {g1f3, g8f6, f3g1, f6g8}
AllMoves == Shuffle \cup {e2e4, e7e5}
LegalMoves(h) == {e[2] : e \in {x \in Graph : x[1] = h}}
Push(h, m) == (CHOOSE e \in Graph : e[1] = h /\ e[2] = m)[3]
\* board.turn after p pushes on chess.Board()
Turn(p) == IF p % 2 = 0 THEN WHITE ELSE BLACK

\* key_hex: the hash as 16 lowercase hexadecimal digits (digit values)
HexWidth == 16
key_hex(h) ==
    [i \in 1..HexWidth |-> IF HexWidth - i > 7 THEN 0 ELSE (h \div Pow(16, HexWidth - i)) % 16]

(***************************************************************************)
(* Book, BookPosition, BookMove.  A dict is a sequence in insertion order. *)
(***************************************************************************)
BookMove(u) == [uci |-> u, weight |-> 0, move |-> None]
BookPosition(k) == [key |-> k, moves |-> <<>>]

\* index of a key in a dict, 0 when absent
PositionIndex(book, k) ==
    IF \E i \in 1..Len(book) : book[i].key = k
    THEN CHOOSE i \in 1..Len(book) : book[i].key = k ELSE 0
MoveIndex(moves, u) ==
    IF \E j \in 1..Len(moves) : moves[j].uci = u
    THEN CHOOSE j \in 1..Len(moves) : moves[j].uci = u ELSE 0

\* dict.setdefault: the dict with the key present
get_position(book, k) ==
    IF PositionIndex(book, k) = 0 THEN Append(book, BookPosition(k)) ELSE book
get_move(moves, u) ==
    IF MoveIndex(moves, u) = 0 THEN Append(moves, BookMove(u)) ELSE moves

\* the loop body: locate or create the MoveStat, set its move, add inc
RecordOverwrite(book, k, m, inc) ==
    LET b1 == get_position(book, k)
        i  == PositionIndex(b1, k)
        ms == get_move(b1[i].moves, uci(m))
        j  == MoveIndex(ms, uci(m))
    IN [b1 EXCEPT ![i].moves = [ms EXCEPT ![j].move = m, ![j].weight = inc]]
Record(book, k, m, inc) ==
    LET b1 == get_position(book, k)
        i  == PositionIndex(b1, k)
        ms == get_move(b1[i].moves, uci(m))
        j  == MoveIndex(ms, uci(m))
    IN [b1 EXCEPT ![i].moves = [ms EXCEPT ![j].move = m, ![j].weight = @ + inc]]

\* the score a book holds for (key, uci); 0 when there is no MoveStat
HasStat(book, k, u) ==
    PositionIndex(book, k) # 0 /\ MoveIndex(book[PositionIndex(book, k)].moves, u) # 0
Weight(book, k, u) ==
    IF HasStat(book, k, u)
    THEN LET i == PositionIndex(book, k)
             j == MoveIndex(book[i].moves, u)
         IN book[i].moves[j].weight
    ELSE 0

(***************************************************************************)
(* Scoring                                                                 *)
(***************************************************************************)
DecayNoFloor(p) == (MAX_PLY - p) \div DecayStep
Decay(p) == Max(1, (MAX_PLY - p) \div DecayStep)

\* random.randint(lo, hi); cfg.rng < 0 is the unrestricted generator, cfg.rng = c a
\* generator that always returns lo + c (capped at hi)
RandInt(lo, hi) == IF cfg.rng < 0 THEN lo..hi ELSE {Min(hi, lo + cfg.rng)}

\* the amounts the loop body may add to bm.weight
BalancedIncrement(res, turn, p) ==
    IF res = "1-0" THEN {(IF turn = WHITE THEN WinFactor ELSE LossFactor) * Decay(p)}
    ELSE IF res = "0-1" THEN {(IF turn = BLACK THEN WinFactor ELSE LossFactor) * Decay(p)}
    ELSE IF res = "1/2-1/2" THEN {DrawFactor * Decay(p)}
    ELSE {0}
WinOnlyIncrement(res, turn, p) ==
    IF (res = "1-0" /\ turn = WHITE) \/ (res = "0-1" /\ turn = BLACK)
    THEN {r * Decay(p) : r \in RandInt(WinRandLo, WinRandHi)}
    ELSE {0}
Increment(res, turn, p) ==
    IF mode = "balanced" THEN BalancedIncrement(res, turn, p) ELSE WinOnlyIncrement(res, turn, p)

(***************************************************************************)
(* Book.normalize.  bm.weight / s * MAX_BOOK_WEIGHT is evaluated in        *)
(* IEEE-754 binary64: the quotient is rounded to a 53-bit significand,     *)
(* the product is rounded again, int() truncates.  A significand is held   *)
(* as four limbs <<11 bits, 14, 14, 14>>, most significant first, in units *)
(* of 2^-(z+53), z the number of leading zero bits of the fraction w/s.    *)
(* Valid for 0 < w <= s < 2^17.                                            *)
(***************************************************************************)
Limb == Pow(2, 14)
LeadingZeros(w, s) == CHOOSE z \in 0..30 : (z = 0 \/ Pow(2, z) * w < s) /\ Pow(2, z + 1) * w >= s
BitLen(n) == CHOOSE b \in 1..24 : (b = 1 \/ Pow(2, b - 1) <= n) /\ n < Pow(2, b)

\* round to nearest, ties to even: is the kept part incremented
RoundsUp(twiceTail, unit, odd) == twiceTail > unit \/ (twiceTail = unit /\ odd)

Carry(l) ==
    LET v3 == l[3] + l[4] \div Limb
        v2 == l[2] + v3 \div Limb
    IN <<l[1] + v2 \div Limb, v2 % Limb, v3 % Limb, l[4] % Limb>>

\* the double nearest w / s
FloatDiv(w, s) ==
    LET z  == LeadingZeros(w, s)
        n0 == Pow(2, z + 11) * w
        r0 == n0 % s
        r1 == (Limb * r0) % s
        r2 == (Limb * r1) % s
        d3 == (Limb * r2) \div s
        r3 == (Limb * r2) % s
        up == RoundsUp(2 * r3, s, d3 % 2 = 1)
    IN Carry(<<n0 \div s, (Limb * r0) \div s, (Limb * r1) \div s, d3 + (IF up THEN 1 ELSE 0)>>)

\* the double nearest q * k, k a small integer
FloatMul(q, k) ==
    LET p    == Carry(<<q[1] * k, q[2] * k, q[3] * k, q[4] * k>>)
        drop == BitLen(p[1]) + 42 - 53
        unit == Pow(2, drop)
        tail == p[4] % unit
        up   == drop > 0 /\ RoundsUp(2 * tail, unit, (p[4] \div unit) % 2 = 1)
    IN Carry(<<p[1], p[2], p[3], p[4] - tail + (IF up THEN unit ELSE 0)>>)

\* int(w / s * MAX_BOOK_WEIGHT)
FloatShare(w, s) ==
    IF w = 0 THEN 0
    ELSE FloatMul(FloatDiv(w, s), MAX_BOOK_WEIGHT)[1] \div Pow(2, LeadingZeros(w, s) + 11)

RECURSIVE SumWeights(_)
SumWeights(moves) ==
    IF moves = <<>> THEN 0 ELSE moves[1].weight + SumWeights(Tail(moves))

NormWeightNoFloor(w, s) == FloatShare(w, s)
NormWeight(w, s) == Max(1, FloatShare(w, s))

\* the body of the loop over self.positions.values()
NormalizePosition(pos) ==
    LET s == SumWeights(pos.moves)
    IN IF s <= 0 THEN pos
       ELSE [pos EXCEPT !.moves = [j \in 1..Len(pos.moves) |->
                                      [pos.moves[j] EXCEPT !.weight = NormWeight(@, s)]]]

Normalize(book) == [i \in 1..Len(book) |-> NormalizePosition(book[i])]

(***************************************************************************)
(* Jitter: bm.weight = min(MAX_BOOK_WEIGHT, bm.weight + random.randint(0,3)) *)
(* for every MoveStat, in iteration order; d holds one draw per MoveStat.  *)
(***************************************************************************)
RECURSIVE StatCount(_)
StatCount(book) == IF book = <<>> THEN 0 ELSE Len(book[1].moves) + StatCount(Tail(book))
\* index in iteration order of the j-th MoveStat of the i-th position
StatIndex(book, i, j) == StatCount(SubSeq(book, 1, i - 1)) + j

JitterWeight(w, d) == Min(MAX_BOOK_WEIGHT, w + d)
ApplyJitter(book, d) ==
    [i \in 1..Len(book) |->
        [book[i] EXCEPT !.moves = [j \in 1..Len(book[i].moves) |->
            [book[i].moves[j] EXCEPT !.weight = JitterWeight(@, d[StatIndex(book, i, j)])]]]]

(***************************************************************************)
(* Book.save_polyglot                                                      *)
(***************************************************************************)
\* bytes.fromhex
FromHex(digits) == [i \in 1..(Len(digits) \div 2) |-> 16 * digits[2 * i - 1] + digits[2 * i]]
\* int.to_bytes(n, "big")
ToBytes(v, n) == [i \in 1..n |-> (v \div Pow(256, n - i)) % 256]
FromBytes(b) == IF Len(b) = 2 THEN 256 * b[1] + b[2] ELSE 0

MoveInt(m) ==
    m.to_square + m.from_square * 64
    + (IF m.promotion # 0 THEN (m.promotion - 1) * 4096 ELSE 0)

SkippedNever(bm) == FALSE
SkippedNegative(bm) == bm.weight < 0 \/ bm.move = None
Skipped(bm) == bm.weight <= 0 \/ bm.move = None

Entry(k, bm) ==
    FromHex(k) \o ToBytes(MoveInt(bm.move), 2)
    \o ToBytes(Min(MAX_BOOK_WEIGHT, bm.weight), 2) \o ToBytes(0, 4)

RECURSIVE PositionEntries(_, _)
PositionEntries(k, moves) ==
    IF moves = <<>> THEN <<>>
    ELSE (IF Skipped(moves[1]) THEN <<>> ELSE <<Entry(k, moves[1])>>)
         \o PositionEntries(k, Tail(moves))
RECURSIVE BookEntries(_)
BookEntries(book) ==
    IF book = <<>> THEN <<>>
    ELSE PositionEntries(book[1].key, book[1].moves) \o BookEntries(Tail(book))

\* comparison of bytes objects
BytesLess(a, b) ==
    \E i \in 1..Min(Len(a), Len(b)) :
        a[i] < b[i] /\ \A j \in 1..(i - 1) : a[j] = b[j]
\* the sort key lambda e: (e[:8], e[10:12])
SortKey(e) == SubSeq(e, 1, 8) \o SubSeq(e, 11, 12)

\* list.sort is stable: e goes after every element whose key is not greater
InsertSorted(sorted, e) ==
    LET n == Cardinality({i \in 1..Len(sorted) : ~ BytesLess(SortKey(e), SortKey(sorted[i]))})
        \* sorted is ordered by key, so those elements are the first n
    IN SubSeq(sorted, 1, n) \o <<e>> \o SubSeq(sorted, n + 1, Len(sorted))
RECURSIVE SortEntries(_)
SortEntries(es) ==
    IF es = <<>> THEN <<>>
    ELSE InsertSorted(SortEntries(SubSeq(es, 1, Len(es) - 1)), es[Len(es)])

save_polyglot(book) == SortEntries(BookEntries(book))

\* the fields of a written entry
EntryHash(e) == SubSeq(e, 1, 8)
EntryMove(e) == FromBytes(SubSeq(e, 9, 10))
EntryWeight(e) == FromBytes(SubSeq(e, 11, 12))
EntryLearn(e) == SubSeq(e, 13, 16)

(***************************************************************************)
(* build_book_from_pgn                                                     *)
(***************************************************************************)
\* the input families: a few short games filling a book of at most `stats` MoveStats;
\* one game running past MAX_PLY along the knight shuffle; short games split over two
\* sub-corpora
ShortCorpus ==
    {[games |-> MaxGames, limit |-> MaxStats, stats |-> MaxStats, moves |-> AllMoves, rng |-> -1,
      shards |-> {"none"}]}
LongCorpus ==
    {[games |-> 1, limit |-> MAX_PLY + MaxExtra, stats |-> MAX_PLY, moves |-> Shuffle, rng |-> c,
      shards |-> {"none"}] :
        c \in 0..(WinRandHi - WinRandLo)}
ShardedCorpus ==
    {[games |-> MaxGames, limit |-> MaxStats, stats |-> MaxStats, moves |-> AllMoves, rng |-> 0,
      shards |-> {"A", "B"}]}

Start(md, corpus, book) ==
    /\ mode \in md
    /\ cfg \in corpus
    /\ pc = "read"
    /\ read = 0
    /\ result = "*"
    /\ botSide = WHITE
    /\ board = StartHash
    /\ ply = -1
    /\ move = None
    /\ positions \in book
    /\ shard = "none"
    /\ bookA = <<>>
    /\ bookB = <<>>
    /\ recorded = {}
    /\ ingested = <<>>
    /\ normalized = <<>>
    /\ delta = <<>>
    /\ entries = <<>>

Init == Start(Modes, ShortCorpus, {<<>>})
InitLong == Start(Modes, LongCorpus, {<<>>})
InitMerge == Start({"balanced"}, ShardedCorpus, {<<>>})

\* the colours the bot of interest can have; filter_and_build.py fetches the games of
\* two bots and has no side of interest
Sides == IF mode = "winonly" THEN {WHITE, BLACK} ELSE {WHITE}

\* read_game returns a game of the target variant
ReadGame ==
    /\ pc = "read"
    /\ read < cfg.games
    /\ \E res \in Results, side \in Sides, sh \in cfg.shards :
          /\ result' = res
          /\ botSide' = side
          /\ shard' = sh
    /\ read' = read + 1
    /\ board' = StartHash
    /\ ply' = -1
    /\ move' = None
    /\ recorded' = {}
    /\ pc' = "moves"
    /\ UNCHANGED <<mode, cfg, positions, bookA, bookB, ingested, normalized, delta, entries>>

\* read_game returns a game whose Variant tag does not match: continue
SkipGame ==
    /\ pc = "read"
    /\ read < cfg.games
    /\ read' = read + 1
    /\ UNCHANGED <<mode, cfg, pc, result, botSide, board, ply, move, positions, shard,
                   bookA, bookB, recorded, ingested, normalized, delta, entries>>

CutoffAfter(p) == p > MAX_PLY
Cutoff(p) == p >= MAX_PLY

\* mainline_moves() yields the next move: one iteration of the for loop
NextMove ==
    /\ pc = "moves"
    /\ ply + 1 < cfg.limit
    /\ \E m \in LegalMoves(board) \cap cfg.moves :
          /\ ply' = ply + 1
          /\ move' = m
          /\ IF Cutoff(ply + 1)
             THEN /\ pc' = "read"
                  /\ UNCHANGED <<positions, bookA, bookB, board, recorded>>
             ELSE \E inc \in Increment(result, Turn(ply + 1), ply + 1) :
                  /\ StatCount(Record(positions, key_hex(board), m, inc)) <= cfg.stats
                  /\ positions' = Record(positions, key_hex(board), m, inc)
                  /\ bookA' = IF shard = "A" THEN Record(bookA, key_hex(board), m, inc) ELSE bookA
                  /\ bookB' = IF shard = "B" THEN Record(bookB, key_hex(board), m, inc) ELSE bookB
                  /\ board' = Push(board, m)
                  /\ recorded' = recorded \cup {ply + 1}
                  /\ pc' = "moves"
    /\ UNCHANGED <<mode, cfg, read, result, botSide, shard, ingested, normalized, delta, entries>>

\* mainline_moves() is exhausted, or board.push(move), the last statement of the body
\* and the only one that can raise, raised after the ply was recorded: break
EndGame ==
    /\ pc = "moves"
    /\ pc' = "read"
    /\ UNCHANGED <<mode, cfg, read, result, botSide, board, ply, move, positions, shard,
                   bookA, bookB, recorded, ingested, normalized, delta, entries>>

\* read_game returns None; book.normalize().  The loop variables and counters are dead
\* from here on.
NormalizeBook ==
    /\ pc = "read"
    /\ ingested' = positions
    /\ positions' = Normalize(positions)
    /\ normalized' = positions'
    /\ pc' = "jitter"
    /\ read' = 0
    /\ result' = "*"
    /\ botSide' = WHITE
    /\ board' = StartHash
    /\ ply' = -1
    /\ move' = None
    /\ recorded' = {}
    /\ shard' = "none"
    /\ UNCHANGED <<mode, cfg, bookA, bookB, delta, entries>>

\* the jitter loop, then book.save_polyglot(bin_path)
JitterAndSave ==
    /\ pc = "jitter"
    /\ \E d \in [1..StatCount(positions) -> RandInt(JitterLo, JitterHi)] :
          /\ delta' = d
          /\ positions' = ApplyJitter(positions, d)
    /\ entries' = save_polyglot(positions')
    /\ pc' = "done"
    /\ UNCHANGED <<mode, cfg, read, result, botSide, board, ply, move, shard,
                   bookA, bookB, recorded, ingested, normalized>>

Next == ReadGame \/ SkipGame \/ NextMove \/ EndGame \/ NormalizeBook \/ JitterAndSave

Spec == Init /\ [][Next]_vars
SpecLong == InitLong /\ [][Next]_vars
SpecMerge == InitMerge /\ [][Next]_vars

(***************************************************************************)
(* normalize, jitter and save_polyglot applied to books drawn from a       *)
(* bounded family: one position after 1.Nf3/1.e4 games with one or two     *)
(* moves, and optionally a second position holding a promotion.  Every     *)
(* score of the family is a sum of increments k * decay of some corpus.    *)
(***************************************************************************)
HashPromo == 4
BalancedScores == {0, 1, 4, 10, 11, 30, 5000}
WinOnlyScores == {0, 4, 10, 11, 30, 5000}
OtherScores == {0, 7}

Stat(m, w) == [uci |-> uci(m), weight |-> w, move |-> m]
FreePositions(k, moveSeqs, scores) ==
    {[key |-> k, moves |-> [j \in 1..Len(ms) |-> Stat(ms[j], ws[j])]] :
        <<ms, ws>> \in {x \in moveSeqs \X UNION {[1..n -> scores] : n \in 1..2} :
                           Len(x[1]) = Len(x[2])}}
FreeBooks(scores) ==
    LET first == FreePositions(key_hex(StartHash),
                               {<<g1f3>>, <<e2e4>>, <<g1f3, e2e4>>, <<e2e4, g1f3>>}, scores)
        other == FreePositions(key_hex(HashPromo), {<<a7a8q>>}, OtherScores)
    IN {<<p>> : p \in first}
       \cup {<<p, q>> : p \in first, q \in other}
       \cup {<<q, p>> : p \in first, q \in other}
NoCorpus ==
    {[games |-> 0, limit |-> 0, stats |-> 0, moves |-> {}, rng |-> -1, shards |-> {"none"}]}

InitBook ==
    \/ Start({"balanced"}, NoCorpus, FreeBooks(BalancedScores))
    \/ Start({"winonly"}, NoCorpus, FreeBooks(WinOnlyScores))
NextBook == NormalizeBook \/ JitterAndSave
SpecBook == InitBook /\ [][NextBook]_vars

(***************************************************************************)
(* Properties                                                              *)
(***************************************************************************)
Keys == {key_hex(h) : h \in {StartHash, HashNf3, HashNf3Nf6, HashNg1, HashE4, HashE4E5, HashPromo}}
Ucis == {uci(m) : m \in AllMoves \cup {a7a8q}}

\* the MoveStats of a book, as <<position index, move index>>
Stats(book) == UNION {{<<i, j>> : j \in 1..Len(book[i].moves)} : i \in 1..Len(book)}
Score(book, x) == book[x[1]].moves[x[2]].weight
DeltaOf(x) == delta[StatIndex(ingested, x[1], x[2])]

\* the move field of an entry read back: bits 0-5 to-square, 6-11 from-square,
\* 12-14 promotion code (0 none, 1 knight .. 4 queen)
DecodeMove(e) ==
    LET v == EntryMove(e)
        code == (v \div 4096) % 8
    IN Mv((v \div 64) % 64, v % 64, IF code = 0 THEN 0 ELSE code + 1)
\* the entries written for the MoveStat x of the ingested book
EntriesOf(x) ==
    {n \in 1..Len(entries) :
        /\ EntryHash(entries[n]) = FromHex(ingested[x[1]].key)
        /\ DecodeMove(entries[n]) = ingested[x[1]].moves[x[2]].move}
Degenerate(i) == SumWeights(ingested[i].moves) <= 0

\* C1: the written entries are in ascending order of the hash field and, for equal
\* hashes, in ascending order of the move field.
SortedByHashThenMove ==
    pc = "done" =>
        \A n \in 1..(Len(entries) - 1) :
            \/ BytesLess(EntryHash(entries[n]), EntryHash(entries[n + 1]))
            \/ /\ EntryHash(entries[n]) = EntryHash(entries[n + 1])
               /\ EntryMove(entries[n]) <= EntryMove(entries[n + 1])

\* C2: every written entry carries a weight w with 0 < w <= MAX_WEIGHT.
WeightBounds ==
    \A n \in 1..Len(entries) :
        0 < EntryWeight(entries[n]) /\ EntryWeight(entries[n]) <= 2520
\* a book was written in which a normalized weight of 2520 was jittered upwards and
\* written as 2520, and a MoveStat of final weight 0 was left out
WeightBoundsWitness ==
    /\ pc = "done"
    /\ \E x \in Stats(ingested) :
          /\ Score(normalized, x) = 2520
          /\ DeltaOf(x) > 0
          /\ \E n \in EntriesOf(x) : EntryWeight(entries[n]) = 2520
    /\ \E x \in Stats(ingested) : Score(positions, x) = 0 /\ EntriesOf(x) = {}

\* C3: every MoveStat whose score is > 0 when ingestion ends has an entry for its
\* hash and move in the output, whatever the jitter.
Retention ==
    pc = "done" =>
        \A x \in Stats(ingested) : Score(ingested, x) > 0 => EntriesOf(x) # {}
\* a move holding 1 of 5001 points, whose share of 2520 rounds down to 0, was not
\* jittered and is in the output
RetentionWitness ==
    /\ pc = "done"
    /\ \E x \in Stats(ingested) :
          /\ Score(ingested, x) = 1
          /\ SumWeights(ingested[x[1]].moves) = 5001
          /\ DeltaOf(x) = 0
          /\ \E n \in EntriesOf(x) : EntryWeight(entries[n]) = 1

\* C4: a MoveStat whose score is 0 when ingestion ends and whose jitter is 0 has no
\* entry in the output, whatever the other scores of its position.
ZeroScoreDropped ==
    pc = "done" =>
        \A x \in Stats(ingested) :
            (Score(ingested, x) = 0 /\ DeltaOf(x) = 0) => EntriesOf(x) = {}

CutoffInclusive ==
    pc = "read" => recorded = 0..Min(ply, 60)
\* C6 amended: the plies recorded and scored are those of index 0 up to but excluding
\* MAX_PLY; the move of index MAX_PLY ends the loop without being recorded, and a game
\* that long keeps the contribution of its first MAX_PLY plies.
CutoffExclusive ==
    pc \in {"read", "moves"} => recorded = 0..Min(ply, 60 - 1)
\* a game whose 61st move was yielded: plies 0..59 are recorded, the last of them in
\* the book, ply 60 is not
CutoffWitness ==
    /\ pc = "read"
    /\ ply = 60
    /\ recorded = 0..59
    /\ HasStat(positions, key_hex(HashNg1), uci(f6g8))
    /\ Weight(positions, key_hex(StartHash), uci(g1f3)) > 0

\* C7: in balanced mode the book aggregated from the whole corpus holds, before
\* normalization, exactly the (hash, move) pairs of the two sub-corpus books, each
\* with the sum of its two scores.
MergeConservation ==
    LET whole == IF pc \in {"read", "moves"} THEN positions ELSE ingested
    IN mode = "balanced" =>
        \A k \in Keys, u \in Ucis :
            /\ HasStat(whole, k, u) <=> (HasStat(bookA, k, u) \/ HasStat(bookB, k, u))
            /\ Weight(whole, k, u) = Weight(bookA, k, u) + Weight(bookB, k, u)
\* two games, one per sub-corpus, both scored 1.Nf3, and only the game of A went on
MergeWitness ==
    /\ pc = "read"
    /\ read = 2
    /\ Weight(bookA, key_hex(StartHash), uci(g1f3)) > 0
    /\ Weight(bookB, key_hex(StartHash), uci(g1f3)) > 0
    /\ HasStat(bookA, key_hex(HashNf3), uci(g8f6))
    /\ ~ HasStat(bookB, key_hex(HashNf3), uci(g8f6))
    /\ Weight(positions, key_hex(StartHash), uci(g1f3))
         = Weight(bookA, key_hex(StartHash), uci(g1f3)) + Weight(bookB, key_hex(StartHash), uci(g1f3))

\* C8: in balanced mode a processed ply p adds k * max(1, floor((MAX_PLY - p) / 5)) to
\* the MoveStat of (hash before the move, move), which exists afterwards, with k = 6 for
\* the winner's move, 1 for the loser's, 2 in a draw and 0 for an unknown result; no
\* other MoveStat changes.
BalancedFactor(res, turn) ==
    IF (res = "1-0" /\ turn = WHITE) \/ (res = "0-1" /\ turn = BLACK) THEN 6
    ELSE IF res \in {"1-0", "0-1"} THEN 1
    ELSE IF res = "1/2-1/2" THEN 2
    ELSE 0
Processed == pc = "moves" /\ pc' = "moves" /\ ply' = ply + 1
BalancedScoring ==
    [][(mode = "balanced" /\ Processed) =>
          /\ HasStat(positions', key_hex(board), uci(move'))
          /\ \A k \in Keys, u \in Ucis :
               Weight(positions', k, u) =
                  Weight(positions, k, u)
                  + (IF k = key_hex(board) /\ u = uci(move')
                     THEN BalancedFactor(result, Turn(ply')) * Max(1, (60 - ply') \div 5)
                     ELSE 0)]_vars
\* a one-move game won by white has ended: its move holds 6 * 12 = 72
BalancedScoringWitness ==
    /\ mode = "balanced"
    /\ result = "1-0"
    /\ pc = "read"
    /\ ply = 0
    /\ positions = <<[key |-> key_hex(StartHash), moves |-> <<Stat(g1f3, 72)>>]>>

\* C9: normalization gives every MoveStat of a position whose score sum S is > 0 the
\* score max(1, floor(score * MAX_WEIGHT / S)), computed from that position alone, and
\* leaves a position with S <= 0 unchanged.
NormalizeExact ==
    pc = "done" =>
        \A x \in Stats(ingested) :
            LET S == SumWeights(ingested[x[1]].moves)
            IN Score(normalized, x) =
                  IF S > 0 THEN Max(1, (Score(ingested, x) * 2520) \div S)
                  ELSE Score(ingested, x)

\* C10: in win-only mode a processed ply gets r * decay, r in 4..6, if the move was made
\* by the side of interest in a game the side of interest won, and 0 otherwise; its
\* MoveStat exists afterwards.
BotWon == (result = "1-0" /\ botSide = WHITE) \/ (result = "0-1" /\ botSide = BLACK)
WinOnlySideOfInterest ==
    [][(mode = "winonly" /\ Processed) =>
          /\ HasStat(positions', key_hex(board), uci(move'))
          /\ LET inc == Weight(positions', key_hex(board), uci(move'))
                        - Weight(positions, key_hex(board), uci(move'))
             IN IF Turn(ply') = botSide /\ BotWon
                THEN inc \in {r * Max(1, (60 - ply') \div 5) : r \in 4..6}
                ELSE inc = 0]_vars

====
